---- MODULE Spec2Model ----
(***************************************************************************)
(* Model of IoTWorkspaceProject (src/src/Models/IoTWorkspaceProject.ts):    *)
(* the component registry of one project and the lifecycle driver that      *)
(* runs load, create, compile, upload, provision and deploy over it.        *)
(*                                                                          *)
(* Every handler is an async function.  One action of the model is the      *)
(* code that runs between two suspension points of the handler: it starts   *)
(* where an awaited call of a collaborator returns (the result of the call  *)
(* is the action's input) and ends where the next collaborator is called    *)
(* or the handler returns.  The calls the driver makes are recorded, in     *)
(* order, in the history variable calls.                                    *)
(***************************************************************************)
EXTENDS Integers, Sequences, FiniteSets, TLC

VARIABLES
    componentList,  \* this.componentList: the component registry
    fs,             \* the files and directories below the project root
    pc,             \* where the running handler is suspended
    phase,          \* the handler of the current (or last) invocation
    result,         \* outcome of the invocation: none, true, false, throw
    calls,          \* calls made by the invocation, with their results
    frame,          \* local variables of the running handler
    hasCap,         \* <<id, capability>> pairs found to be implemented
    lacksCap,       \* <<id, capability>> pairs found not to be implemented
    nextId,         \* source of fresh component ids
    regStart,       \* componentList when the invocation started
    fsStart,        \* fs when the invocation started
    nInv,           \* number of invocations started so far
    workspace       \* the opened workspace: what load() reads of it

vars == <<componentList, fs, pc, phase, result, calls, frame, hasCap,
          lacksCap, nextId, regStart, fsStart, nInv, workspace>>

\* Bound on the number of handler invocations in one behaviour.
MaxInvocations == 2

\* Bound on the number of records of the component config store.
MaxRecords == 2

----------------------------------------------------------------------------
\* Data

\* ProjectTemplateType
TemplateTypes == {"Basic", "IotHub", "AzureFunctions", "StreamAnalytics"}

\* Board ids offered to create(); only the Raspberry Pi board is accepted.
RaspberryPiBoardId == "raspberrypi"
BoardIds == {RaspberryPiBoardId, "devkit"}

\* const constants = {...}
deviceDefaultFolderName == "Device"
functionDefaultFolderName == "Functions"
asaFolderName == "StreamAnalytics"

\* DependencyType
DependencyInput == "Input"
DependencyOther == "Other"

NoComponent == [id |-> 0, type |-> "none", deps |-> <<>>]

\* new X(...): a component object with a fresh id and its dependencies
NewComponent(id, type, deps) == [id |-> id, type |-> type, deps |-> deps]

\* item.name of a component
NameOf(c) == c.type

NoFile == [present |-> FALSE, folders |-> <<>>, settings |-> {}]

\* The project root before a project was created in it.
EmptyRoot ==
    [root |-> TRUE, deviceDir |-> FALSE, functionDir |-> FALSE,
     asaDir |-> FALSE, asaQuery |-> FALSE, store |-> FALSE,
     storeEntries |-> <<>>, workspaceFile |-> NoFile,
     vscodeDir |-> FALSE, projectConfigFile |-> NoFile]

\* A create() that forgets the removal of the root.
RootLeftInPlace == fs

\* fs.removeSync(this.projectRootPath): the root and all that is below it
\* are gone.
RemovedRoot == [EmptyRoot EXCEPT !.root = FALSE]

\* An entry of the history of calls.
Call(op, c, pos) ==
    [op |-> op, id |-> c.id, pos |-> pos, res |-> "pending", marks |-> {}]

\* A call of a collaborator that the handler does not wait for, or whose
\* result it does not use.
Message(op) == [Call(op, NoComponent, 0) EXCEPT !.res = "true"]

\* The awaited call returned r.
Returned(r) == [calls EXCEPT ![Len(calls)].res = r]

NoFrame ==
    [projectType |-> "none", boardId |-> "none", device |-> NoComponent,
     iothub |-> NoComponent, cosmosDB |-> NoComponent,
     second |-> NoComponent, folders |-> <<>>, settings |-> {},
     projectConfig |-> {}, i |-> 0, itemList |-> <<>>,
     devicePath |-> FALSE, components |-> {}]

Bool(b) == IF b THEN "true" ELSE "false"

\* Board ids for which load() has a device class (AZ3166, IoT button, ESP32,
\* Raspberry Pi).
KnownBoardIds == {"devkit", "iotbutton", "esp32", RaspberryPiBoardId}

\* What load() finds when no folder is open: vscode.workspace.workspaceFolders
\* is undefined and nothing else is looked at.
NoWorkspace ==
    [workspaceFolders |-> FALSE, devicePath |-> FALSE,
     iotworkbenchproject |-> FALSE, projectConfigFile |-> FALSE,
     boardId |-> "none", projectType |-> FALSE, functionPath |-> FALSE,
     componentConfigs |-> <<>>]

----------------------------------------------------------------------------
\* Initial state: a constructed project object, nothing loaded or created.

Init ==
    /\ componentList = <<>>
    /\ fs = EmptyRoot
    /\ pc = "idle"
    /\ phase = "none"
    /\ result = "none"
    /\ calls = <<>>
    /\ frame = NoFrame
    /\ hasCap = {}
    /\ lacksCap = {}
    /\ nextId = 1
    /\ regStart = <<>>
    /\ fsStart = EmptyRoot
    /\ nInv = 0
    /\ workspace = NoWorkspace

\* A dispatcher that starts a handler while another one is suspended.
CanStartWhileSuspended == nInv < MaxInvocations

\* A handler may be invoked when none is running or suspended.
CanStart == pc \in {"idle", "done"} /\ nInv < MaxInvocations

\* Entry of handler p.
Enter(p) ==
    /\ phase' = p
    /\ nInv' = nInv + 1
    /\ regStart' = componentList
    /\ fsStart' = fs
    /\ workspace' = workspace

\* The handler returns r (true, false) or throws.
Finish(r) ==
    /\ pc' = "done"
    /\ result' = r

----------------------------------------------------------------------------
\* Collaborators of create() whose code is outside IoTWorkspaceProject.ts

\* AzureConfigFileHandler.createIfNotExists: the component config store of
\* the project is created, empty, unless it is there already.
createIfNotExists(f) == [f EXCEPT !.store = TRUE]

\* The record a component keeps of itself in the component config store.
ConfigRecord(c) == [type |-> c.type, id |-> c.id, dependencies |-> c.deps]

\* Effect on disk of a component's create() that returned true: every
\* component but the device has its record in the component config store.
ComponentCreated(f, c) ==
    IF c.type = "Device" \/ \E k \in 1..Len(f.storeEntries) :
                                f.storeEntries[k].id = c.id
    THEN f
    ELSE [f EXCEPT !.storeEntries = Append(@, ConfigRecord(c))]

----------------------------------------------------------------------------
\* create(rootFolderPath, templateFilesInfo, projectType, boardId, ...)

\* The loop of component level creation is entered: create() is called on
\* the first component of the registry.
StartComponentCreation(list, fr, cl) ==
    /\ componentList' = list
    /\ frame' = [fr EXCEPT !.i = 1]
    /\ calls' = Append(cl, Call("create", list[1], 1))
    /\ pc' = "create_component"
    /\ result' = "none"

\* return false after a failed prerequisite check
AbortCreate(cl) ==
    /\ Finish("false")
    /\ calls' = cl
    /\ UNCHANGED <<componentList, frame>>

\* From the entry of create() to the call of device.checkPrerequisites().
create_enter(projectType, boardId) ==
    /\ CanStart
    /\ Enter("create")
    /\ UNCHANGED <<componentList, hasCap, lacksCap>>
    /\ IF ~fs.root
       THEN \* 'Unable to find the root path'
            /\ Finish("throw")
            /\ calls' = <<>>
            /\ frame' = NoFrame
            /\ UNCHANGED <<fs, nextId>>
       ELSE /\ fs' = [createIfNotExists(fs) EXCEPT !.deviceDir = TRUE]
            /\ IF boardId # RaspberryPiBoardId
               THEN \* 'The specified board is not supported.'
                    /\ Finish("throw")
                    /\ calls' = <<Message("createIfNotExists")>>
                    /\ frame' = NoFrame
                    /\ UNCHANGED nextId
               ELSE LET device == NewComponent(nextId, "Device", <<>>) IN
                    /\ nextId' = nextId + 1
                    /\ frame' = [NoFrame EXCEPT
                                   !.projectType = projectType,
                                   !.boardId = boardId,
                                   !.device = device,
                                   !.folders = <<deviceDefaultFolderName>>]
                    /\ calls' = <<Message("createIfNotExists"),
                                   Call("checkPrerequisites", device, 0)>>
                    /\ pc' = "create_device_pre"
                    /\ result' = "none"

\* device.checkPrerequisites() returned ok: the device is registered and the
\* template is expanded up to its first prerequisite check.
create_device_pre(ok) ==
    /\ pc = "create_device_pre"
    /\ UNCHANGED <<fs, phase, hasCap, lacksCap, regStart, fsStart, nInv, workspace>>
    /\ LET cl == Returned(Bool(ok)) IN
       IF ~ok
       THEN AbortCreate(cl) /\ UNCHANGED nextId
       ELSE LET list == Append(Append(componentList, frame.device),
                               frame.device)
                fr == [frame EXCEPT
                         !.settings = @ \cup
                             {<<"boardId", frame.boardId>>,
                              <<"devicePath", deviceDefaultFolderName>>},
                         !.projectConfig = @ \cup
                             {<<"boardId", frame.boardId>>,
                              <<"projectType", frame.projectType>>}]
            IN IF frame.projectType = "Basic"
               THEN StartComponentCreation(list, fr, cl) /\ UNCHANGED nextId
               ELSE LET iothub == NewComponent(nextId, "IoTHub", <<>>) IN
                    /\ nextId' = nextId + 1
                    /\ componentList' = list
                    /\ frame' = [fr EXCEPT !.iothub = iothub]
                    /\ calls' = Append(cl, Call("checkPrerequisites",
                                                iothub, 0))
                    /\ pc' = "create_iothub_pre"
                    /\ result' = "none"

\* iothub.checkPrerequisites() returned ok.
create_iothub_pre(ok) ==
    /\ pc = "create_iothub_pre"
    /\ UNCHANGED <<phase, hasCap, lacksCap, regStart, fsStart, nInv, workspace>>
    /\ LET cl == Returned(Bool(ok)) IN
       IF ~ok
       THEN AbortCreate(cl) /\ UNCHANGED <<fs, nextId>>
       ELSE CASE frame.projectType = "IotHub" ->
                 /\ StartComponentCreation(
                        Append(componentList, frame.iothub), frame, cl)
                 /\ UNCHANGED <<fs, nextId>>
              [] frame.projectType = "AzureFunctions" ->
                 LET azureFunctions ==
                         NewComponent(nextId, "AzureFunctions",
                             <<[id |-> frame.iothub.id,
                                type |-> DependencyInput]>>)
                 IN
                 /\ fs' = [fs EXCEPT !.functionDir = TRUE]
                 /\ nextId' = nextId + 1
                 /\ frame' = [frame EXCEPT
                                !.folders =
                                    Append(@, functionDefaultFolderName),
                                !.second = azureFunctions]
                 /\ calls' = Append(cl, Call("checkPrerequisites",
                                             azureFunctions, 0))
                 /\ pc' = "create_functions_pre"
                 /\ result' = "none"
                 /\ UNCHANGED componentList
              [] OTHER -> \* StreamAnalytics
                 LET cosmosDB == NewComponent(nextId, "CosmosDB", <<>>) IN
                 /\ nextId' = nextId + 1
                 /\ frame' = [frame EXCEPT !.cosmosDB = cosmosDB]
                 /\ calls' = Append(cl, Call("checkPrerequisites",
                                             cosmosDB, 0))
                 /\ pc' = "create_cosmosdb_pre"
                 /\ result' = "none"
                 /\ UNCHANGED <<fs, componentList>>

\* azureFunctions.checkPrerequisites() returned ok.
create_functions_pre(ok) ==
    /\ pc = "create_functions_pre"
    /\ UNCHANGED <<fs, phase, hasCap, lacksCap, nextId, regStart, fsStart,
                   nInv, workspace>>
    /\ LET cl == Returned(Bool(ok)) IN
       IF ~ok
       THEN AbortCreate(cl)
       ELSE StartComponentCreation(
                Append(Append(componentList, frame.iothub), frame.second),
                [frame EXCEPT
                   !.settings = @ \cup
                       {<<"functionPath", functionDefaultFolderName>>},
                   !.projectConfig = @ \cup
                       {<<"functionPath", functionDefaultFolderName>>}],
                cl)

\* cosmosDB.checkPrerequisites() returned ok.
create_cosmosdb_pre(ok) ==
    /\ pc = "create_cosmosdb_pre"
    /\ UNCHANGED <<componentList, phase, hasCap, lacksCap, regStart,
                   fsStart, nInv, workspace>>
    /\ LET cl == Returned(Bool(ok)) IN
       IF ~ok
       THEN AbortCreate(cl) /\ UNCHANGED <<fs, nextId>>
       ELSE LET asa == NewComponent(nextId, "StreamAnalyticsJob",
                           <<[id |-> frame.iothub.id,
                              type |-> DependencyInput],
                             [id |-> frame.cosmosDB.id,
                              type |-> DependencyOther]>>)
            IN
            /\ fs' = [fs EXCEPT !.asaDir = TRUE, !.asaQuery = TRUE]
            /\ nextId' = nextId + 1
            /\ frame' = [frame EXCEPT !.second = asa]
            /\ calls' = Append(cl, Call("checkPrerequisites", asa, 0))
            /\ pc' = "create_asa_pre"
            /\ result' = "none"

\* asa.checkPrerequisites() returned ok.
create_asa_pre(ok) ==
    /\ pc = "create_asa_pre"
    /\ UNCHANGED <<fs, phase, hasCap, lacksCap, nextId, regStart, fsStart,
                   nInv, workspace>>
    /\ LET cl == Returned(Bool(ok)) IN
       IF ~ok
       THEN AbortCreate(cl)
       ELSE StartComponentCreation(
                Append(Append(Append(componentList, frame.iothub),
                              frame.cosmosDB), frame.second),
                [frame EXCEPT
                   !.folders = Append(@, asaFolderName),
                   !.settings = @ \cup {<<"asaPath", asaFolderName>>},
                   !.projectConfig = @ \cup {<<"asaPath", asaFolderName>>}],
                cl)

\* The workspace file and the project-config file are written.
WriteDescriptor(f, fr) ==
    [f EXCEPT
       !.workspaceFile = [present |-> TRUE, folders |-> fr.folders,
                          settings |-> fr.settings],
       !.vscodeDir = TRUE,
       !.projectConfigFile =
           IF @.present THEN @
           ELSE [present |-> TRUE, folders |-> <<>>,
                 settings |-> fr.projectConfig]]

\* The calls that write the two files, in the order they are made.
DescriptorWrites(f) ==
    IF f.projectConfigFile.present
    THEN <<Message("writeWorkspaceFile")>>
    ELSE <<Message("writeWorkspaceFile"), Message("writeProjectConfigFile")>>

\* A loop that stops one component early.
MoreToCreateSkipsLast(i) == i + 1 < Len(componentList)

\* Loop condition of the component level creation, i counted from 1.
MoreToCreate(i) == i < Len(componentList)

\* this.componentList[i].create() returned res (or threw).  isRemote is the
\* answer of RemoteExtension.isRemote, asked after the last component.
create_component(res, isRemote) ==
    /\ pc = "create_component"
    /\ UNCHANGED <<componentList, phase, hasCap, lacksCap, nextId, regStart,
                   fsStart, nInv, workspace>>
    /\ LET cl == Returned(res)
           i == frame.i
       IN
       CASE res = "throw" ->
            /\ Finish("throw")
            /\ calls' = cl
            /\ UNCHANGED <<fs, frame>>
         [] res = "false" ->
            /\ fs' = RemovedRoot
            /\ calls' = Append(cl, Message("showWarningMessage"))
            /\ Finish("false")
            /\ UNCHANGED frame
         [] OTHER ->
            LET created == ComponentCreated(fs, componentList[i]) IN
            IF MoreToCreate(i)
            THEN /\ fs' = created
                 /\ frame' = [frame EXCEPT !.i = i + 1]
                 /\ calls' = Append(cl, Call("create",
                                             componentList[i + 1], i + 1))
                 /\ pc' = "create_component"
                 /\ result' = "none"
            ELSE /\ fs' = WriteDescriptor(created, frame)
                 /\ frame' = [frame EXCEPT !.i = i + 1]
                 /\ IF isRemote
                    THEN /\ Finish("true")
                         /\ calls' = cl \o DescriptorWrites(created)
                    ELSE /\ calls' = Append(cl \o DescriptorWrites(created),
                                            Call("checkRemoteExtension",
                                                 NoComponent, 0))
                         /\ pc' = "create_remote"
                         /\ result' = "none"

\* RemoteExtension.checkRemoteExtension() returned ok.
create_remote(ok) ==
    /\ pc = "create_remote"
    /\ calls' = Returned(Bool(ok))
    /\ Finish(Bool(ok))
    /\ UNCHANGED <<componentList, fs, phase, frame, hasCap, lacksCap, nextId,
                   regStart, fsStart, nInv, workspace>>

create ==
    \/ \E t \in TemplateTypes, b \in BoardIds : create_enter(t, b)
    \/ \E ok \in BOOLEAN : create_device_pre(ok)
    \/ \E ok \in BOOLEAN : create_iothub_pre(ok)
    \/ \E ok \in BOOLEAN : create_functions_pre(ok)
    \/ \E ok \in BOOLEAN : create_cosmosdb_pre(ok)
    \/ \E ok \in BOOLEAN : create_asa_pre(ok)
    \/ \E res \in {"true", "false", "throw"}, r \in BOOLEAN :
           create_component(res, r)
    \/ \E ok \in BOOLEAN : create_remote(ok)

----------------------------------------------------------------------------
\* The workspaces load() is run on

\* componentConfig.type of the records; EventHub is a type load() has no
\* case for.
RecordTypes ==
    {"IoTHub", "AzureFunctions", "StreamAnalyticsJob", "CosmosDB", "EventHub"}

\* The id of the k-th record of a store.
RecordId(k) == 100 + k

\* The ids of S in increasing order, as dependencies: the first is an Input
\* dependency and the others are Other dependencies, as create() writes them.
RECURSIVE DependenciesOn(_, _)
DependenciesOn(S, first) ==
    IF S = {} THEN <<>>
    ELSE LET k == CHOOSE x \in S : \A y \in S : x <= y IN
         <<[id |-> RecordId(k),
            type |-> IF first THEN DependencyInput ELSE DependencyOther]>>
             \o DependenciesOn(S \ {k}, FALSE)

\* The lists of n records that getSortedComponents may return: any types,
\* and dependencies on any other ids, be they of earlier records, of later
\* records or of no record of the list.
RecordLists(n) ==
    {[k \in 1..n |->
         [type |-> t[k], id |-> RecordId(k),
          dependencies |-> DependenciesOn(d[k], TRUE)]] :
        t \in [1..n -> RecordTypes],
        d \in {f \in [1..n -> SUBSET (1..MaxRecords)] :
                  \A k \in 1..n : k \notin f[k]}}

\* A workspace in which load() finds all it asks for before it builds the
\* components.
Opened(boardId, functionPath, records) ==
    [workspaceFolders |-> TRUE, devicePath |-> TRUE,
     iotworkbenchproject |-> TRUE, projectConfigFile |-> TRUE,
     boardId |-> boardId, projectType |-> TRUE,
     functionPath |-> functionPath, componentConfigs |-> records]

\* Workspaces in which one of the things load() asks for first is missing.
Incomplete ==
    LET w == Opened(RaspberryPiBoardId, FALSE, <<>>) IN
    {[w EXCEPT !.workspaceFolders = FALSE], [w EXCEPT !.devicePath = FALSE],
     [w EXCEPT !.iotworkbenchproject = FALSE],
     [w EXCEPT !.projectConfigFile = FALSE], [w EXCEPT !.boardId = "none"],
     [w EXCEPT !.projectType = FALSE]}

Workspaces ==
    Incomplete \cup
    {Opened(b, fp, recs) :
        b \in {RaspberryPiBoardId, "other"}, fp \in BOOLEAN,
        recs \in UNION {RecordLists(n) : n \in 0..MaxRecords}}

----------------------------------------------------------------------------
\* load(initLoad)

\* A component after its load(): it has the id, the type and the resolved
\* dependencies of its record.
LoadedComponent(rec, deps) == NewComponent(rec.id, rec.type, deps)

\* The component types that load() knows.
KnownTypes == {"IoTHub", "AzureFunctions", "StreamAnalyticsJob", "CosmosDB"}

\* A switch whose default case is never taken.
SupportedAny(type) == TRUE

\* The switch over componentConfig.type has a case for the type.
Supported(type) == type \in KnownTypes

\* A loop that looks no dependency up.
UnresolvedNever(rec, components) == FALSE

\* components[dependent.id] is undefined for a dependency of rec.
Unresolved(rec, components) ==
    \E k \in 1..Len(rec.dependencies) :
        \A c \in components : c.id # rec.dependencies[k].id

\* The cases of the switch that look up the dependencies of the record.
ResolvesDependencies(type) == type \in {"StreamAnalyticsJob", "CosmosDB"}

\* this.componentList.forEach(item => { item.checkPrerequisites(); }):
\* the check of every item is started and none is waited for.
CheckAll(list) ==
    [pos \in 1..Len(list) |-> Call("checkPrerequisites", list[pos], pos)]

\* A loop that pushes the component of the record and nothing else.
PushedAlone(comp, deviceId) == <<comp>>

\* What the IoTHub case and the other cases push for a loaded component: a
\* hub is followed by a new IoTHubDevice.
Pushed(comp, deviceId) ==
    IF comp.type = "IoTHub"
    THEN <<comp, NewComponent(deviceId, "IoTHubDevice", <<>>)>>
    ELSE <<comp>>

\* A functions app that is given no dependency.
LegacyWithoutDependencies(iothub) == <<>>

\* Dependencies of the functions app of a legacy project.
LegacyDependencies(iothub) ==
    <<[id |-> iothub.id, type |-> DependencyInput]>>

\* The loop over componentConfigs from record i to its next suspension (the
\* load() of the component of a record), or to the end of load().
ResolveFrom(i, list, components, cl) ==
    LET records == workspace.componentConfigs IN
    /\ componentList' = list
    /\ IF i > Len(records)
       THEN /\ calls' = cl \o CheckAll(list)
            /\ Finish("true")
            /\ frame' = [frame EXCEPT !.i = i, !.components = components]
       ELSE LET rec == records[i]
                known == Supported(rec.type)
                comp == LoadedComponent(rec,
                            IF ResolvesDependencies(rec.type)
                            THEN rec.dependencies ELSE <<>>)
            IN
            CASE ~known ->
                 \* 'Component not supported with type of ...'
                 /\ Finish("throw")
                 /\ calls' = cl
                 /\ frame' = [frame EXCEPT !.i = i,
                                           !.components = components]
              [] rec.type = "AzureFunctions" /\ ~workspace.functionPath ->
                 /\ Finish("false")
                 /\ calls' = cl
                 /\ frame' = [frame EXCEPT !.i = i,
                                           !.components = components]
              [] ResolvesDependencies(rec.type)
                     /\ Unresolved(rec, components) ->
                 \* 'Cannot find component with id ...'
                 /\ Finish("throw")
                 /\ calls' = cl
                 /\ frame' = [frame EXCEPT !.i = i,
                                           !.components = components]
              [] OTHER ->
                 /\ calls' = Append(cl, Call("load", comp, 0))
                 /\ frame' = [frame EXCEPT !.i = i, !.second = comp,
                                           !.components = components]
                 /\ pc' = "load_record"
                 /\ result' = "none"

\* From the entry of load() to the load() of the device, or to
\* getSortedComponents when the board has no device class.
load_enter ==
    /\ CanStart
    /\ Enter("load")
    /\ UNCHANGED <<hasCap, lacksCap>>
    /\ fs' = IF /\ workspace.workspaceFolders /\ workspace.devicePath
                /\ workspace.iotworkbenchproject
                /\ workspace.projectConfigFile
             THEN createIfNotExists(fs) ELSE fs
    /\ IF \/ ~workspace.workspaceFolders \/ ~workspace.devicePath
          \/ ~workspace.iotworkbenchproject \/ ~workspace.projectConfigFile
       THEN /\ Finish("false")
            /\ calls' = <<>>
            /\ frame' = NoFrame
            /\ UNCHANGED <<componentList, nextId>>
       ELSE IF workspace.boardId = "none" \/ ~workspace.projectType
       THEN /\ Finish("false")
            /\ calls' = <<Message("createIfNotExists")>>
            /\ frame' = NoFrame
            /\ UNCHANGED <<componentList, nextId>>
       ELSE /\ result' = "none"
            /\ IF workspace.boardId \in KnownBoardIds
               THEN LET device == NewComponent(nextId, "Device", <<>>) IN
                    /\ nextId' = nextId + 1
                    /\ componentList' = Append(componentList, device)
                    /\ frame' = [NoFrame EXCEPT !.device = device]
                    /\ calls' = <<Message("createIfNotExists"),
                                  Call("load", device, Len(componentList) + 1)>>
                    /\ pc' = "load_device"
               ELSE /\ frame' = NoFrame
                    /\ calls' = <<Message("createIfNotExists"),
                                  Call("getSortedComponents", NoComponent, 0)>>
                    /\ pc' = "load_components"
                    /\ UNCHANGED <<componentList, nextId>>

\* What an awaited call of load() does: it returns, or it throws.
Outcomes == {"returned", "throw"}

\* The awaited call threw: load() throws what it threw.
Thrown ==
    /\ calls' = Returned("throw")
    /\ Finish("throw")
    /\ UNCHANGED <<componentList, frame, nextId>>

\* device.load() returned (or threw).
load_device(res) ==
    /\ pc = "load_device"
    /\ UNCHANGED <<fs, phase, hasCap, lacksCap, regStart, fsStart, nInv,
                   workspace>>
    /\ IF res = "throw" THEN Thrown
       ELSE /\ calls' = Append(Returned(res),
                               Call("getSortedComponents", NoComponent, 0))
            /\ pc' = "load_components"
            /\ UNCHANGED <<componentList, result, frame, nextId>>

\* getSortedComponents returned the records (or threw): a store without
\* records is that of a legacy project, for which a hub is made; otherwise
\* the loop over the records starts.
load_components(res) ==
    /\ pc = "load_components"
    /\ UNCHANGED <<fs, phase, hasCap, lacksCap, regStart, fsStart, nInv,
                   workspace>>
    /\ IF res = "throw" THEN Thrown
       ELSE IF Len(workspace.componentConfigs) = 0
       THEN LET iotHub == NewComponent(nextId, "IoTHub", <<>>) IN
            /\ nextId' = nextId + 1
            /\ frame' = [frame EXCEPT !.iothub = iotHub]
            /\ calls' = Append(Returned(res),
                               Call("updateConfigSettings", iotHub, 0))
            /\ pc' = "load_hub_settings"
            /\ UNCHANGED <<componentList, result>>
       ELSE /\ ResolveFrom(1, componentList, {}, Returned(res))
            /\ UNCHANGED nextId

\* The load() of the component of record i returned (or threw): the
\* component is registered and the loop goes on.
load_record(res) ==
    /\ pc = "load_record"
    /\ UNCHANGED <<fs, phase, hasCap, lacksCap, regStart, fsStart, nInv,
                   workspace>>
    /\ IF res = "throw" THEN Thrown
       ELSE LET comp == frame.second IN
            /\ nextId' = IF comp.type = "IoTHub" THEN nextId + 1 ELSE nextId
            /\ ResolveFrom(frame.i + 1,
                           componentList \o Pushed(comp, nextId),
                           frame.components \cup {comp}, Returned(res))

\* iotHub.updateConfigSettings() returned or threw (legacy project).
load_hub_settings(res) ==
    /\ pc = "load_hub_settings"
    /\ UNCHANGED <<fs, phase, hasCap, lacksCap, regStart, fsStart, nInv,
                   workspace>>
    /\ IF res = "throw" THEN Thrown
       ELSE /\ calls' = Append(Returned(res), Call("load", frame.iothub, 0))
            /\ pc' = "load_hub"
            /\ UNCHANGED <<componentList, result, frame, nextId>>

\* iotHub.load() returned or threw (legacy project): the hub and a new
\* IoTHubDevice are pushed; with a functionPath the functions app is made,
\* otherwise load() ends.
load_hub(res) ==
    /\ pc = "load_hub"
    /\ UNCHANGED <<fs, phase, hasCap, lacksCap, regStart, fsStart, nInv,
                   workspace>>
    /\ IF res = "throw" THEN Thrown
       ELSE LET list == componentList \o Pushed(frame.iothub, nextId) IN
            /\ componentList' = list
            /\ IF workspace.functionPath
               THEN LET functionApp ==
                            NewComponent(nextId + 1, "AzureFunctions",
                                         LegacyDependencies(frame.iothub))
                    IN
                    /\ nextId' = nextId + 2
                    /\ frame' = [frame EXCEPT !.second = functionApp]
                    /\ calls' = Append(Returned(res),
                                       Call("updateConfigSettings",
                                            functionApp, 0))
                    /\ pc' = "load_functions_settings"
                    /\ UNCHANGED result
               ELSE /\ nextId' = nextId + 1
                    /\ calls' = Returned(res) \o CheckAll(list)
                    /\ Finish("true")
                    /\ UNCHANGED frame

\* functionApp.updateConfigSettings() returned or threw (legacy project).
load_functions_settings(res) ==
    /\ pc = "load_functions_settings"
    /\ UNCHANGED <<fs, phase, hasCap, lacksCap, regStart, fsStart, nInv,
                   workspace>>
    /\ IF res = "throw" THEN Thrown
       ELSE /\ calls' = Append(Returned(res), Call("load", frame.second, 0))
            /\ pc' = "load_functions"
            /\ UNCHANGED <<componentList, result, frame, nextId>>

\* functionApp.load() returned or threw (legacy project): the functions
\* app is pushed and load() ends.
load_functions(res) ==
    /\ pc = "load_functions"
    /\ UNCHANGED <<fs, phase, hasCap, lacksCap, regStart, fsStart, nInv,
                   workspace>>
    /\ IF res = "throw" THEN Thrown
       ELSE LET list == Append(componentList, frame.second) IN
            /\ componentList' = list
            /\ calls' = Returned(res) \o CheckAll(list)
            /\ Finish("true")
            /\ UNCHANGED <<frame, nextId>>

\* The checks that load() started and did not wait for have completed:
\* all returned true, or all but the one of the last entry of the registry
\* did. Nothing reads what they returned.
load_checks_settled ==
    /\ pc = "done" /\ phase = "load"
    /\ \E k \in 1..Len(calls) : calls[k].res = "pending"
    /\ \E failed \in {0, Len(calls)} :
           /\ calls' = [k \in 1..Len(calls) |->
                           IF calls[k].res = "pending"
                           THEN [calls[k] EXCEPT !.res = Bool(k # failed)]
                           ELSE calls[k]]
    /\ UNCHANGED <<componentList, fs, pc, phase, result, frame, hasCap,
                   lacksCap, nextId, regStart, fsStart, nInv, workspace>>

load ==
    \/ load_enter
    \/ \E res \in Outcomes :
           \/ load_device(res)
           \/ load_components(res)
           \/ load_record(res)
           \/ load_hub_settings(res)
           \/ load_hub(res)
           \/ load_functions_settings(res)
           \/ load_functions(res)
    \/ load_checks_settled

----------------------------------------------------------------------------
\* Capability checks of IoTWorkbenchProjectBase (canCompile, canUpload,
\* canProvision, canDeploy).  Which capabilities a component implements is
\* fixed by its class; the model settles each membership the first time the
\* driver asks for it and keeps the answer from then on.

\* compile() asking canUpload and upload() asking canCompile.
CapabilityOfSwapped(p) ==
    CASE p = "compile" -> "Uploadable"
      [] p = "upload" -> "Compilable"
      [] p = "provision" -> "Provisionable"
      [] OTHER -> "Deployable"

CapabilityOf(p) ==
    CASE p = "compile" -> "Compilable"
      [] p = "upload" -> "Uploadable"
      [] p = "provision" -> "Provisionable"
      [] OTHER -> "Deployable"

\* yes is an answer the component can give to the capability check of p.
CanAnswer(item, p, yes) ==
    /\ <<item.id, CapabilityOf(p)>> \in hasCap => yes
    /\ <<item.id, CapabilityOf(p)>> \in lacksCap => ~yes

\* The capability check of p on item was answered by yes.
Answered(item, p, yes) ==
    /\ hasCap' = IF yes THEN hasCap \cup {<<item.id, CapabilityOf(p)>>}
                 ELSE hasCap
    /\ lacksCap' = IF yes THEN lacksCap
                   ELSE lacksCap \cup {<<item.id, CapabilityOf(p)>>}

\* this.canProvision(item) / this.canDeploy(item) in the second loop
Can(item, p) == <<item.id, CapabilityOf(p)>> \in hasCap

----------------------------------------------------------------------------
\* compile() and upload(): p is "compile" or "upload"

\* Entry of the handler: the loop over this.componentList starts.
build_enter(p) ==
    /\ CanStart
    /\ Enter(p)
    /\ calls' = <<>>
    /\ frame' = [NoFrame EXCEPT !.i = 1]
    /\ pc' = "build_next"
    /\ result' = "none"
    /\ UNCHANGED <<componentList, fs, hasCap, lacksCap, nextId>>

\* One turn of the loop up to the prerequisite check: the item is skipped
\* when it lacks the capability; return true after the last item.
build_next(p, yes) ==
    /\ pc = "build_next" /\ phase = p
    /\ UNCHANGED <<componentList, fs, phase, nextId, regStart, fsStart, nInv, workspace>>
    /\ IF frame.i > Len(componentList)
       THEN /\ yes
            /\ Finish("true")
            /\ UNCHANGED <<calls, frame, hasCap, lacksCap>>
       ELSE LET item == componentList[frame.i] IN
            /\ CanAnswer(item, p, yes)
            /\ Answered(item, p, yes)
            /\ result' = "none"
            /\ IF yes
               THEN /\ calls' = Append(calls, Call("checkPrerequisites",
                                                   item, frame.i))
                    /\ pc' = "build_pre"
                    /\ UNCHANGED frame
               ELSE /\ frame' = [frame EXCEPT !.i = @ + 1]
                    /\ UNCHANGED <<calls, pc>>

\* A driver that goes on to the phase method whatever the check returned.
build_pre_unchecked(p, ok) ==
    /\ pc = "build_pre" /\ phase = p
    /\ UNCHANGED <<componentList, fs, phase, frame, hasCap, lacksCap, nextId,
                   regStart, fsStart, nInv, workspace>>
    /\ calls' = Append(Returned(Bool(ok)),
                       Call(p, componentList[frame.i], frame.i))
    /\ pc' = "build_act"
    /\ result' = "none"

\* item.checkPrerequisites() returned ok.
build_pre(p, ok) ==
    /\ pc = "build_pre" /\ phase = p
    /\ UNCHANGED <<componentList, fs, phase, frame, hasCap, lacksCap, nextId,
                   regStart, fsStart, nInv, workspace>>
    /\ IF ~ok
       THEN /\ calls' = Returned("false")
            /\ Finish("false")
       ELSE /\ calls' = Append(Returned("true"),
                               Call(p, componentList[frame.i], frame.i))
            /\ pc' = "build_act"
            /\ result' = "none"

\* A driver that throws only when the component threw.
build_act_lenient(p, res) ==
    /\ pc = "build_act" /\ phase = p
    /\ calls' = Returned(res)
    /\ UNCHANGED <<componentList, fs, phase, hasCap, lacksCap, nextId,
                   regStart, fsStart, nInv, workspace>>
    /\ IF res # "throw"
       THEN /\ frame' = [frame EXCEPT !.i = @ + 1]
            /\ pc' = "build_next"
            /\ result' = "none"
       ELSE /\ Finish("throw")
            /\ UNCHANGED frame

\* item.compile() / item.upload() returned res (or threw).
build_act(p, res) ==
    /\ pc = "build_act" /\ phase = p
    /\ calls' = Returned(res)
    /\ UNCHANGED <<componentList, fs, phase, hasCap, lacksCap, nextId,
                   regStart, fsStart, nInv, workspace>>
    /\ IF res = "true"
       THEN /\ frame' = [frame EXCEPT !.i = @ + 1]
            /\ pc' = "build_next"
            /\ result' = "none"
       ELSE \* 'Unable to compile the device code ...' or the component's
            \* own error
            /\ Finish("throw")
            /\ UNCHANGED frame

compile ==
    \/ build_enter("compile")
    \/ \E yes \in BOOLEAN : build_next("compile", yes)
    \/ \E ok \in BOOLEAN : build_pre("compile", ok)
    \/ \E res \in {"true", "false", "throw"} : build_act("compile", res)

upload ==
    \/ build_enter("upload")
    \/ \E yes \in BOOLEAN : build_next("upload", yes)
    \/ \E ok \in BOOLEAN : build_pre("upload", ok)
    \/ \E res \in {"true", "false", "throw"} : build_act("upload", res)

----------------------------------------------------------------------------
\* provision()

\* The labels of the quick pick for item: the entries of the item list that
\* carry the '>>' marker are those whose name is the name of item.
Marked(itemList, item) ==
    {k \in 1..Len(itemList) : itemList[k] = NameOf(item)}

\* provisionItemList.length === 0
NothingToProvision(itemList) == Len(itemList) = 0

\* Entry of provision(): devicePath is whether the devicePath setting is
\* configured.
provision_enter(devicePath) ==
    /\ CanStart
    /\ Enter("provision")
    /\ calls' = <<>>
    /\ UNCHANGED <<componentList, fs, hasCap, lacksCap, nextId>>
    /\ IF ~devicePath
       THEN \* 'Cannot run IoT Device Workbench command in a
            \* non-IoTWorkbench project.'
            /\ Finish("throw")
            /\ frame' = NoFrame
       ELSE /\ frame' = [NoFrame EXCEPT !.i = 1, !.devicePath = TRUE]
            /\ pc' = "provision_list"
            /\ result' = "none"

\* One turn of the first loop up to the prerequisite check; after the last
\* item, return false on an empty item list, else check the Azure login.
provision_list(yes) ==
    /\ pc = "provision_list"
    /\ UNCHANGED <<componentList, fs, phase, nextId, regStart, fsStart, nInv, workspace>>
    /\ IF frame.i > Len(componentList)
       THEN /\ yes
            /\ UNCHANGED <<frame, hasCap, lacksCap>>
            /\ IF NothingToProvision(frame.itemList)
               THEN /\ calls' = Append(calls,
                                       Message("showInformationMessage"))
                    /\ Finish("false")
               ELSE /\ calls' = Append(calls, Call("checkAzureLogin",
                                                   NoComponent, 0))
                    /\ pc' = "provision_login"
                    /\ result' = "none"
       ELSE LET item == componentList[frame.i] IN
            /\ CanAnswer(item, "provision", yes)
            /\ Answered(item, "provision", yes)
            /\ result' = "none"
            /\ IF yes
               THEN /\ calls' = Append(calls, Call("checkPrerequisites",
                                                   item, frame.i))
                    /\ pc' = "provision_pre"
                    /\ UNCHANGED frame
               ELSE /\ frame' = [frame EXCEPT !.i = @ + 1]
                    /\ UNCHANGED <<calls, pc>>

\* item.checkPrerequisites() returned ok in the first loop.
provision_pre(ok) ==
    /\ pc = "provision_pre"
    /\ calls' = Returned(Bool(ok))
    /\ UNCHANGED <<componentList, fs, phase, hasCap, lacksCap, nextId,
                   regStart, fsStart, nInv, workspace>>
    /\ IF ~ok
       THEN Finish("false") /\ UNCHANGED frame
       ELSE /\ frame' = [frame EXCEPT
                           !.itemList =
                               Append(@, NameOf(componentList[frame.i])),
                           !.i = @ + 1]
            /\ pc' = "provision_list"
            /\ result' = "none"

\* checkAzureLogin() returned res (or threw): the value it returns is not
\* looked at; the resource group is asked for next.
provision_login(res) ==
    /\ pc = "provision_login"
    /\ UNCHANGED <<componentList, fs, phase, frame, hasCap, lacksCap, nextId,
                   regStart, fsStart, nInv, workspace>>
    /\ IF res = "throw"
       THEN /\ calls' = Returned(res)
            /\ Finish("throw")
       ELSE /\ calls' = Append(Returned(res),
                               Call("getResourceGroup", NoComponent, 0))
            /\ pc' = "provision_rg"
            /\ result' = "none"

\* The item of the second loop that is acted on next, from position i on
\* (Len + 1 when there is none).
RECURSIVE NextEligible(_, _, _)
NextEligible(list, p, i) ==
    IF i > Len(list) \/ Can(list[i], p) THEN i
    ELSE NextEligible(list, p, i + 1)

\* The second loop of provision() from position i to its next suspension:
\* the quick pick of the next item that can be provisioned, or return true.
ProvisionFrom(i, cl) ==
    LET n == NextEligible(componentList, "provision", i) IN
    /\ frame' = [frame EXCEPT !.i = n]
    /\ IF n > Len(componentList)
       THEN /\ Finish("true")
            /\ calls' = cl
       ELSE /\ calls' = Append(cl,
                   [Call("showQuickPick", componentList[n], n) EXCEPT
                      !.marks = Marked(frame.itemList, componentList[n])])
            /\ pc' = "provision_pick"
            /\ result' = "none"

\* AzureUtility.getResourceGroup() returned; resourceGroup and
\* subscriptionId tell whether the two values are defined.
provision_rg(resourceGroup, subscriptionId) ==
    /\ pc = "provision_rg"
    /\ UNCHANGED <<componentList, fs, phase, hasCap, lacksCap, nextId,
                   regStart, fsStart, nInv, workspace>>
    /\ IF ~resourceGroup \/ ~subscriptionId
       THEN /\ calls' = Returned("false")
            /\ Finish("false")
            /\ UNCHANGED frame
       ELSE ProvisionFrom(1, Returned("true"))

\* A driver that provisions the item whatever the quick pick returned.
provision_pick_regardless(selection) ==
    /\ pc = "provision_pick"
    /\ UNCHANGED <<componentList, fs, phase, frame, hasCap, lacksCap, nextId,
                   regStart, fsStart, nInv, workspace>>
    /\ calls' = Append(Returned(Bool(selection)),
                       Call("provision", componentList[frame.i], frame.i))
    /\ pc' = "provision_act"
    /\ result' = "none"

\* showQuickPick returned a selection, or undefined.
provision_pick(selection) ==
    /\ pc = "provision_pick"
    /\ UNCHANGED <<componentList, fs, phase, frame, hasCap, lacksCap, nextId,
                   regStart, fsStart, nInv, workspace>>
    /\ IF ~selection
       THEN /\ calls' = Returned("false")
            /\ Finish("false")
       ELSE /\ calls' = Append(Returned("true"),
                               Call("provision", componentList[frame.i],
                                    frame.i))
            /\ pc' = "provision_act"
            /\ result' = "none"

\* A driver that goes on to the next item after a false.
provision_act_continues(res) ==
    /\ pc = "provision_act"
    /\ UNCHANGED <<componentList, fs, phase, hasCap, lacksCap, nextId,
                   regStart, fsStart, nInv, workspace>>
    /\ IF res # "throw"
       THEN ProvisionFrom(frame.i + 1, Returned(res))
       ELSE /\ calls' = Returned(res)
            /\ Finish("throw")
            /\ UNCHANGED frame

\* item.provision() returned res (or threw).
provision_act(res) ==
    /\ pc = "provision_act"
    /\ UNCHANGED <<componentList, fs, phase, hasCap, lacksCap, nextId,
                   regStart, fsStart, nInv, workspace>>
    /\ CASE res = "true" -> ProvisionFrom(frame.i + 1, Returned(res))
         [] res = "false" ->
            \* 'Provision canceled.'
            /\ calls' = Append(Returned(res), Message("showWarningMessage"))
            /\ Finish("false")
            /\ UNCHANGED frame
         [] OTHER ->
            /\ calls' = Returned(res)
            /\ Finish("throw")
            /\ UNCHANGED frame

provision ==
    \/ \E d \in BOOLEAN : provision_enter(d)
    \/ \E yes \in BOOLEAN : provision_list(yes)
    \/ \E ok \in BOOLEAN : provision_pre(ok)
    \/ \E res \in {"true", "false", "throw"} : provision_login(res)
    \/ \E g \in BOOLEAN, u \in BOOLEAN : provision_rg(g, u)
    \/ \E sel \in BOOLEAN : provision_pick(sel)
    \/ \E res \in {"true", "false", "throw"} : provision_act(res)

----------------------------------------------------------------------------
\* deploy()

\* A test of the item list that never finds it empty.
NothingToDeployNever(itemList) == Len(itemList) < 0

\* deployItemList && deployItemList.length <= 0
NothingToDeploy(itemList) == Len(itemList) <= 0

deploy_enter ==
    /\ CanStart
    /\ Enter("deploy")
    /\ calls' = <<>>
    /\ frame' = [NoFrame EXCEPT !.i = 1]
    /\ pc' = "deploy_list"
    /\ result' = "none"
    /\ UNCHANGED <<componentList, fs, hasCap, lacksCap, nextId>>

\* One turn of the first loop up to the prerequisite check; after the last
\* item, return false on an empty item list, else check the Azure login.
deploy_list(yes) ==
    /\ pc = "deploy_list"
    /\ UNCHANGED <<componentList, fs, phase, nextId, regStart, fsStart, nInv, workspace>>
    /\ IF frame.i > Len(componentList)
       THEN /\ yes
            /\ UNCHANGED <<frame, hasCap, lacksCap>>
            /\ IF NothingToDeploy(frame.itemList)
               THEN /\ calls' = Append(calls,
                                       Message("showInformationMessage"))
                    /\ Finish("false")
               ELSE /\ calls' = Append(calls, Call("checkAzureLogin",
                                                   NoComponent, 0))
                    /\ pc' = "deploy_login"
                    /\ result' = "none"
       ELSE LET item == componentList[frame.i] IN
            /\ CanAnswer(item, "deploy", yes)
            /\ Answered(item, "deploy", yes)
            /\ result' = "none"
            /\ IF yes
               THEN /\ calls' = Append(calls, Call("checkPrerequisites",
                                                   item, frame.i))
                    /\ pc' = "deploy_pre"
                    /\ UNCHANGED frame
               ELSE /\ frame' = [frame EXCEPT !.i = @ + 1]
                    /\ UNCHANGED <<calls, pc>>

\* item.checkPrerequisites() returned ok in the first loop.
deploy_pre(ok) ==
    /\ pc = "deploy_pre"
    /\ calls' = Returned(Bool(ok))
    /\ UNCHANGED <<componentList, fs, phase, hasCap, lacksCap, nextId,
                   regStart, fsStart, nInv, workspace>>
    /\ IF ~ok
       THEN Finish("false") /\ UNCHANGED frame
       ELSE /\ frame' = [frame EXCEPT
                           !.itemList =
                               Append(@, NameOf(componentList[frame.i])),
                           !.i = @ + 1]
            /\ pc' = "deploy_list"
            /\ result' = "none"

\* The second loop of deploy() from position i to its next suspension: the
\* quick pick of the next item that can be deployed, or return true.
DeployFrom(i, cl) ==
    LET n == NextEligible(componentList, "deploy", i) IN
    /\ frame' = [frame EXCEPT !.i = n]
    /\ IF n > Len(componentList)
       THEN \* 'Azure deploy succeeded.'
            /\ Finish("true")
            /\ calls' = Append(cl, Message("showInformationMessage"))
       ELSE /\ calls' = Append(cl,
                   [Call("showQuickPick", componentList[n], n) EXCEPT
                      !.marks = Marked(frame.itemList, componentList[n])])
            /\ pc' = "deploy_pick"
            /\ result' = "none"

\* checkAzureLogin() returned res (or threw): azureLoggedIn is assigned and
\* never read.
deploy_login(res) ==
    /\ pc = "deploy_login"
    /\ UNCHANGED <<componentList, fs, phase, hasCap, lacksCap, nextId,
                   regStart, fsStart, nInv, workspace>>
    /\ IF res = "throw"
       THEN /\ calls' = Returned(res)
            /\ Finish("throw")
            /\ UNCHANGED frame
       ELSE DeployFrom(1, Returned(res))

\* showQuickPick returned a selection, or undefined.
deploy_pick(selection) ==
    /\ pc = "deploy_pick"
    /\ UNCHANGED <<componentList, fs, phase, frame, hasCap, lacksCap, nextId,
                   regStart, fsStart, nInv, workspace>>
    /\ IF ~selection
       THEN /\ calls' = Returned("false")
            /\ Finish("false")
       ELSE /\ calls' = Append(Returned("true"),
                               Call("deploy", componentList[frame.i],
                                    frame.i))
            /\ pc' = "deploy_act"
            /\ result' = "none"

\* A driver that returns false when item.deploy() returns false.
deploy_act_returns_false(res) ==
    /\ pc = "deploy_act"
    /\ UNCHANGED <<componentList, fs, phase, hasCap, lacksCap, nextId,
                   regStart, fsStart, nInv, workspace>>
    /\ IF res = "true"
       THEN DeployFrom(frame.i + 1, Returned(res))
       ELSE /\ calls' = Returned(res)
            /\ Finish(IF res = "false" THEN "false" ELSE "throw")
            /\ UNCHANGED frame

\* item.deploy() returned res (or threw).
deploy_act(res) ==
    /\ pc = "deploy_act"
    /\ UNCHANGED <<componentList, fs, phase, hasCap, lacksCap, nextId,
                   regStart, fsStart, nInv, workspace>>
    /\ IF res = "true"
       THEN DeployFrom(frame.i + 1, Returned(res))
       ELSE \* 'The deployment of ${item.name} failed.' or the component's
            \* own error
            /\ calls' = Returned(res)
            /\ Finish("throw")
            /\ UNCHANGED frame

deploy ==
    \/ deploy_enter
    \/ \E yes \in BOOLEAN : deploy_list(yes)
    \/ \E ok \in BOOLEAN : deploy_pre(ok)
    \/ \E res \in {"true", "false", "throw"} : deploy_login(res)
    \/ \E sel \in BOOLEAN : deploy_pick(sel)
    \/ \E res \in {"true", "false", "throw"} : deploy_act(res)

Next == create \/ compile \/ upload \/ provision \/ deploy

Spec == Init /\ [][Next]_vars

\* load() on an opened workspace: the project object is new, the workspace
\* is any of Workspaces and stays as it is.
InitLoad ==
    /\ componentList = <<>>
    /\ fs = EmptyRoot
    /\ pc = "idle"
    /\ phase = "none"
    /\ result = "none"
    /\ calls = <<>>
    /\ frame = NoFrame
    /\ hasCap = {}
    /\ lacksCap = {}
    /\ nextId = 1
    /\ regStart = <<>>
    /\ fsStart = EmptyRoot
    /\ nInv = 0
    /\ workspace \in Workspaces

NextLoad == load

SpecLoad == InitLoad /\ [][NextLoad]_vars

----------------------------------------------------------------------------
\* Vocabulary of the properties

Done(p) == pc = "done" /\ phase = p

\* Positions of the history at which op was called.
CallsOf(op) == {k \in 1..Len(calls) : calls[k].op = op}

\* Positions of the history at which op was called and returned r.
CallsWith(op, r) == {k \in CallsOf(op) : calls[k].res = r}

\* create() was called on the component at registry position pos and
\* returned true, before position k of the history.
CreatedBefore(pos, k) ==
    \E j \in CallsWith("create", "true") : j < k /\ calls[j].pos = pos

\* Every component of the registry had its create() return true before
\* position k of the history.
AllCreatedBefore(k) ==
    /\ Len(componentList) > 0
    /\ \A pos \in 1..Len(componentList) : CreatedBefore(pos, k)

\* Files, directories and store records that are on disk now and were not
\* when the invocation started.
LeftBehind ==
    \/ \E d \in {"deviceDir", "functionDir", "asaDir", "asaQuery", "store",
                 "vscodeDir"} : fs[d] /\ ~fsStart[d]
    \/ fs.workspaceFile.present /\ fs.workspaceFile # fsStart.workspaceFile
    \/ fs.projectConfigFile.present
         /\ fs.projectConfigFile # fsStart.projectConfigFile
    \/ Len(fs.storeEntries) > Len(fsStart.storeEntries)

----------------------------------------------------------------------------
\* C1: in create(), when the create() of a component of the registry
\* returns false, create() returns false at once: the project root has been
\* removed, create() is called on no later component, and neither the
\* workspace file, nor the project-config file, nor a record of the
\* component config store is left on disk.
C1_CreateFalseRemovesRoot ==
    \A k \in CallsWith("create", "false") :
        /\ Done("create") /\ result = "false"
        /\ ~fs.root
        /\ \A j \in CallsOf("create") : j <= k
        /\ ~fs.workspaceFile.present
        /\ ~fs.projectConfigFile.present
        /\ fs.storeEntries = <<>>

\* The fourth create() of an AzureFunctions project (that of the functions
\* app, after the hub wrote its record) returned false.
C1_Witness ==
    /\ Done("create") /\ frame.projectType = "AzureFunctions"
    /\ \E k \in CallsWith("create", "false") : calls[k].pos = 4

\* C2: a create() that returns false leaves nothing behind that it put on
\* disk itself.
C2_FalseLeavesNothing ==
    Done("create") /\ result = "false" => ~LeftBehind

\* C3: in create(), a component is in the registry only after its own
\* checkPrerequisites() returned true, and when a checkPrerequisites()
\* returned false create() has returned false with the registry as it was
\* when create() was called.
C3_NoPartialRegistry ==
    phase = "create" =>
        /\ \A pos \in (Len(regStart) + 1)..Len(componentList) :
               \E k \in CallsWith("checkPrerequisites", "true") :
                   calls[k].id = componentList[pos].id
        /\ CallsWith("checkPrerequisites", "false") # {} =>
               /\ pc = "done" /\ result = "false"
               /\ componentList = regStart

\* C4 as stated: no part of the descriptor (workspace file, project-config
\* file, component config store) is written or created before the create()
\* of every component returned true.
C4_NoDescriptorBeforeAllCreated ==
    phase = "create" =>
        \A k \in CallsOf("createIfNotExists")
                   \cup CallsOf("writeWorkspaceFile")
                   \cup CallsOf("writeProjectConfigFile") :
            AllCreatedBefore(k)

\* C4, amended: in create(), the workspace file and the project-config file
\* are written only after the create() of every component of the registry
\* returned true, and until then both files are as they were; the component
\* config store is created first of all, before any component exists.
C4_FilesAfterAllCreated ==
    phase = "create" =>
        /\ \A k \in CallsOf("writeWorkspaceFile")
                      \cup CallsOf("writeProjectConfigFile") :
               AllCreatedBefore(k)
        /\ fs.root /\ ~AllCreatedBefore(Len(calls) + 1) =>
               /\ fs.workspaceFile = fsStart.workspaceFile
               /\ fs.projectConfigFile = fsStart.projectConfigFile
        /\ \A k \in CallsOf("createIfNotExists") : k = 1
        /\ CallsOf("createIfNotExists") # {} /\ fs.root => fs.store

\* The two files were written at the end of a StreamAnalytics create().
C4_Witness ==
    /\ Done("create") /\ result = "true"
    /\ frame.projectType = "StreamAnalytics"
    /\ CallsOf("writeWorkspaceFile") # {}
    /\ CallsOf("writeProjectConfigFile") # {}
    /\ CallsOf("createIfNotExists") = {1}

----------------------------------------------------------------------------
\* The calls of compile() or upload() go to components with capability cap
\* only, and the phase method op is called in registry order.
OnlyCapable(op, cap) ==
    /\ \A k \in CallsOf(op) \cup CallsOf("checkPrerequisites") :
           /\ <<calls[k].id, cap>> \in hasCap
           /\ <<calls[k].id, cap>> \notin lacksCap
           /\ calls[k].id = componentList[calls[k].pos].id
    /\ \A j \in CallsOf(op), k \in CallsOf(op) :
           j < k => calls[j].pos < calls[k].pos
    /\ \A k \in 1..Len(calls) : calls[k].op \in {op, "checkPrerequisites"}

\* C5: compile() calls compile() only on components that implement
\* Compilable and upload() calls upload() only on components that implement
\* Uploadable; a component without the capability has neither the phase
\* method nor checkPrerequisites() called on it; the phase method is called
\* in registry order.
C5_OnlyCapableInOrder ==
    /\ phase = "compile" => OnlyCapable("compile", "Compilable")
    /\ phase = "upload" => OnlyCapable("upload", "Uploadable")

\* An upload() over a registry of three or more entries returned true: it
\* skipped a component that is not Uploadable and then acted on a later one.
C5_Witness ==
    /\ Done("upload") /\ result = "true"
    /\ \E a \in 1..Len(componentList), k \in CallsOf("upload") :
           /\ <<componentList[a].id, "Uploadable">> \in lacksCap
           /\ a < calls[k].pos

\* The phase method of the current compile() or upload().
PhaseCalls == CallsOf(phase)

\* C6 as stated: in compile() and upload(), when the prerequisites of an
\* eligible component fail the call returns false and the phase method was
\* called on no component at all in the invocation.
C6_FailedCheckSkipsWholePhase ==
    phase \in {"compile", "upload"} =>
        \A k \in CallsWith("checkPrerequisites", "false") :
            /\ pc = "done" /\ result = "false"
            /\ PhaseCalls = {}

\* C6, amended: in compile() and upload(), when the prerequisites of an
\* eligible component fail the call returns false at once: the phase method
\* is called neither on that component nor on any later one, while the
\* eligible components before it have had their phase method called.
C6_FailedCheckStopsPhase ==
    phase \in {"compile", "upload"} =>
        \A k \in CallsWith("checkPrerequisites", "false") :
            /\ pc = "done" /\ result = "false"
            /\ k = Len(calls)
            /\ \A j \in PhaseCalls : calls[j].pos < calls[k].pos
            /\ \A pos \in 1..(calls[k].pos - 1) :
                   <<componentList[pos].id, CapabilityOf(phase)>> \in hasCap
                       => \E j \in PhaseCalls : calls[j].pos = pos

\* A compile() returned false on a failed check after it had compiled an
\* earlier component.
C6_Witness ==
    /\ Done("compile") /\ result = "false"
    /\ CallsWith("checkPrerequisites", "false") # {}
    /\ CallsWith("compile", "true") # {}

\* C7: in compile() and upload(), when the phase method of a component
\* returns false the driver throws at once, with the phase method of no
\* later component called; the call returns true only if the phase method
\* was called on every component that has the capability and none of those
\* calls returned false.
C7_FalseThrowsAtOnce ==
    phase \in {"compile", "upload"} =>
        /\ \A k \in CallsWith(phase, "false") :
               /\ pc = "done" /\ result = "throw"
               /\ k = Len(calls)
        /\ pc = "done" /\ result = "true" =>
               /\ \A pos \in 1..Len(componentList) :
                      \/ <<componentList[pos].id, CapabilityOf(phase)>>
                             \in lacksCap
                      \/ \E j \in CallsWith(phase, "true") :
                             calls[j].pos = pos
               /\ \A j \in PhaseCalls : calls[j].res = "true"

\* An upload() threw on the false of the second component it acted on.
C7_Witness ==
    /\ Done("upload") /\ result = "throw"
    /\ CallsWith("upload", "true") # {}
    /\ CallsWith("upload", "false") # {}

----------------------------------------------------------------------------
\* The calls of provision() and deploy() beyond the prerequisite checks.
CloudCalls ==
    CallsOf("checkAzureLogin") \cup CallsOf("getResourceGroup")
        \cup CallsOf("showQuickPick") \cup CallsOf("provision")
        \cup CallsOf("deploy")

\* No component had the capability of the phase and passed its
\* prerequisites in this invocation.
ZeroEligible == CallsWith("checkPrerequisites", "true") = {}

\* C8 as stated: provision() and deploy() over a registry with no eligible
\* component return false without login check, resource group resolution,
\* confirmation or component action.
C8_ZeroEligibleReturnsFalse ==
    (Done("provision") \/ Done("deploy")) /\ ZeroEligible =>
        /\ result = "false"
        /\ CloudCalls = {}

\* C8, amended: over a registry with no eligible component, deploy(), and
\* provision() when the devicePath setting is configured, return false
\* without login check, resource group resolution, confirmation or
\* component action; provision() without a configured devicePath throws
\* instead, before it looks at the registry, and makes none of these calls
\* either.
C8_ZeroEligibleNoCloudCalls ==
    (Done("provision") \/ Done("deploy")) /\ ZeroEligible =>
        /\ result = IF phase = "provision" /\ ~frame.devicePath
                    THEN "throw" ELSE "false"
        /\ CloudCalls = {}
        /\ phase = "provision" /\ ~frame.devicePath => calls = <<>>

\* A deploy() over a registry of components none of which is Deployable
\* returned false on the empty item list.
C8_Witness ==
    /\ Done("deploy") /\ result = "false"
    /\ Len(componentList) > 2
    /\ \A pos \in 1..Len(componentList) :
           <<componentList[pos].id, "Deployable">> \in lacksCap
    /\ CallsOf("showInformationMessage") # {}

\* C9: in provision(), the provision() of a component is called only after
\* the login check succeeded and a resource group and a subscription id
\* were resolved; when the login check returns false, or either value is
\* absent, provision() returns false and has called no component's
\* provision().
C9_ProvisionNeedsLogin ==
    phase = "provision" =>
        /\ \A k \in CallsOf("provision") :
               /\ \E j \in CallsWith("checkAzureLogin", "true") : j < k
               /\ \E j \in CallsWith("getResourceGroup", "true") : j < k
        /\ \/ CallsWith("checkAzureLogin", "false") # {}
           \/ CallsWith("getResourceGroup", "false") # {}
           => /\ CallsOf("provision") = {}
              /\ pc = "done" => result = "false"

\* C10 as stated: in provision() and deploy(), when the action of a
\* component returns false the driver shows a warning and returns false (it
\* does not throw), with no later confirmation or action.
C10_ActionFalseReturnsFalse ==
    phase \in {"provision", "deploy"} =>
        \A k \in CallsWith(phase, "false") :
            /\ pc = "done" /\ result = "false"
            /\ CallsOf("showWarningMessage") = {k + 1}
            /\ Len(calls) = k + 1

\* C10, amended: when the action of a component returns false, provision()
\* shows a warning and returns false, while deploy() throws an error that
\* names the component and shows no warning; in both, no later confirmation
\* or action is performed in the invocation.
C10_ActionFalseAborts ==
    /\ phase = "provision" =>
           \A k \in CallsWith("provision", "false") :
               /\ pc = "done" /\ result = "false"
               /\ CallsOf("showWarningMessage") = {k + 1}
               /\ Len(calls) = k + 1
    /\ phase = "deploy" =>
           \A k \in CallsWith("deploy", "false") :
               /\ pc = "done" /\ result = "throw"
               /\ CallsOf("showWarningMessage") = {}
               /\ Len(calls) = k

\* A provision() returned false on the false of the second component it
\* acted on, with a third eligible component still to come.
C10_Witness ==
    /\ Done("provision") /\ result = "false"
    /\ CallsWith("provision", "true") # {}
    /\ \E k \in CallsWith("provision", "false") :
           \E pos \in (calls[k].pos + 1)..Len(componentList) :
               Can(componentList[pos], "provision")

----------------------------------------------------------------------------
\* C11: in provision() and deploy(), one confirmation is requested per
\* registry entry that has the capability, immediately before the action of
\* that entry and in registry order; when the user declines a confirmation
\* the call returns false at once, so that neither the action of that entry
\* nor that of a later one is called, and the actions called before it
\* returned true and are not called again.
C11_OneConfirmationPerAction ==
    phase \in {"provision", "deploy"} =>
        LET picks == CallsOf("showQuickPick")
            acts == PhaseCalls
        IN
        /\ \A k \in acts :
               /\ k > 1
               /\ calls[k - 1].op = "showQuickPick"
               /\ calls[k - 1].pos = calls[k].pos
               /\ calls[k - 1].res = "true"
        /\ \A j \in picks, k \in picks : j < k => calls[j].pos < calls[k].pos
        /\ \A k \in picks : <<calls[k].id, CapabilityOf(phase)>> \in hasCap
        /\ \A k \in picks :
               calls[k].res = "false" =>
                   /\ pc = "done" /\ result = "false"
                   /\ k = Len(calls)
                   /\ \A j \in acts : calls[j].res = "true"
        /\ pc = "done" /\ result = "true" =>
               \A pos \in 1..Len(componentList) :
                   <<componentList[pos].id, CapabilityOf(phase)>> \in hasCap
                       => \E k \in picks :
                              calls[k].pos = pos /\ calls[k].res = "true"

\* The user declined the second confirmation of a deploy() after the first
\* component had been deployed.
C11_Witness ==
    /\ Done("deploy") /\ result = "false"
    /\ CallsWith("showQuickPick", "false") # {}
    /\ CallsWith("deploy", "true") # {}

----------------------------------------------------------------------------
\* The component types of a registry, in order.
Types(list) == [k \in 1..Len(list) |-> list[k].type]

\* C15: a create() of template type StreamAnalytics and board X that
\* returns true on a new project leaves the registry [Device, IoTHub,
\* CosmosDB, StreamAnalyticsJob], the job depending on the hub as Input and
\* on the CosmosDB as Other; the workspace file holds the folders Device
\* and StreamAnalytics and the project-config file holds boardId = X and
\* asaPath = StreamAnalytics.
C15_StreamAnalyticsRegistry ==
    /\ Done("create") /\ result = "true"
    /\ frame.projectType = "StreamAnalytics" /\ regStart = <<>>
    => /\ Types(componentList) =
              <<"Device", "IoTHub", "CosmosDB", "StreamAnalyticsJob">>
       /\ componentList[4].deps =
              <<[id |-> componentList[2].id, type |-> DependencyInput],
                [id |-> componentList[3].id, type |-> DependencyOther]>>
       /\ fs.workspaceFile.folders = <<deviceDefaultFolderName, asaFolderName>>
       /\ <<"boardId", frame.boardId>> \in fs.projectConfigFile.settings
       /\ <<"asaPath", asaFolderName>> \in fs.projectConfigFile.settings

\* C17: no two entries of the component registry have the same id.
C17_UniqueIds ==
    \A a \in 1..Len(componentList), b \in 1..Len(componentList) :
        a # b => componentList[a].id # componentList[b].id

----------------------------------------------------------------------------
C20_CheckedBeforePhase ==
    phase \in {"create", "compile", "upload", "provision", "deploy"} =>
        \A k \in PhaseCalls :
            \E j \in CallsWith("checkPrerequisites", "true") :
                j < k /\ calls[j].id = calls[k].id

----------------------------------------------------------------------------
\* Properties of load()

\* The records that load() read.
Records == workspace.componentConfigs

\* What the running load() added to the registry.
Loaded == SubSeq(componentList, Len(regStart) + 1, Len(componentList))

\* Every dependency of every record is the id of an earlier record.
Resolvable(records) ==
    \A i \in 1..Len(records) :
        \A k \in 1..Len(records[i].dependencies) :
            \E j \in 1..(i - 1) : records[j].id = records[i].dependencies[k].id

\* The component types that the records stand for, a hub being followed by
\* its device.
RECURSIVE TypesOfRecords(_)
TypesOfRecords(records) ==
    IF records = <<>> THEN <<>>
    ELSE (IF Head(records).type = "IoTHub"
          THEN <<"IoTHub", "IoTHubDevice">>
          ELSE <<Head(records).type>>)
             \o TypesOfRecords(Tail(records))

\* The type of the device that load() makes for the board, if it makes one.
TypesOfBoard == IF workspace.boardId \in KnownBoardIds THEN <<"Device">>
                ELSE <<>>

\* The components of list that stand for a record.
OfRecords(list) ==
    SelectSeq(list, LAMBDA c : c.type \notin {"Device", "IoTHubDevice"})

\* C12 as stated: when the dependencies of the records resolve in
\* declaration order and load() returns true on a new project, the registry
\* has as many entries as there are records and its i-th entry is the
\* component of the i-th record.
C12_RegistryMatchesRecords ==
    /\ Done("load") /\ result = "true" /\ regStart = <<>>
    /\ Records # <<>> /\ Resolvable(Records)
    => /\ Len(componentList) = Len(Records)
       /\ \A i \in 1..Len(Records) :
              /\ componentList[i].id = Records[i].id
              /\ componentList[i].type = Records[i].type

\* C12, amended: when load() returns true on a store with records, it has
\* added to the registry the device of the board, if the board is known,
\* and then the component of each record in record order, the component of
\* an IoTHub record being followed by a new IoTHubDevice; the components
\* of the records are as many as the records and the i-th has the id and
\* the type of the i-th record.
C12_DeviceThenRecordsInOrder ==
    Done("load") /\ result = "true" /\ Records # <<>> =>
        /\ Types(Loaded) = TypesOfBoard \o TypesOfRecords(Records)
        /\ Len(OfRecords(Loaded)) = Len(Records)
        /\ \A i \in 1..Len(Records) :
               /\ OfRecords(Loaded)[i].id = Records[i].id
               /\ OfRecords(Loaded)[i].type = Records[i].type

\* load() returned true on a known board and two records, a hub and a
\* stream analytics job that depends on it: the registry has four entries.
C12_Witness ==
    /\ Done("load") /\ result = "true" /\ regStart = <<>>
    /\ workspace.boardId \in KnownBoardIds
    /\ Len(Records) = 2 /\ Resolvable(Records)
    /\ Records[1].type = "IoTHub" /\ Records[2].type = "StreamAnalyticsJob"
    /\ Records[2].dependencies # <<>>
    /\ Len(componentList) = 4

\* C13: when a dependency of a record, of whatever type, is not the id of
\* an earlier record, load() fails, also when the id is that of a later
\* record; and no component of the registry has a dependency on an id that
\* no earlier entry of the registry has.
C13_UnresolvedRaises ==
    /\ Done("load") /\ ~Resolvable(Records) => result # "true"
    /\ phase = "load" =>
           \A a \in 1..Len(Loaded) :
               \A k \in 1..Len(Loaded[a].deps) :
                   \E b \in 1..(a - 1) : Loaded[b].id = Loaded[a].deps[k].id

\* The ids and the types of a registry, in order.
IdsAndTypes(list) ==
    [k \in 1..Len(list) |-> <<list[k].id, list[k].type>>]

\* C14: a second load() of the same unchanged workspace leaves the registry
\* with the ids and the types, in order, that the first load() left.
C14_LoadIdempotent ==
    Done("load") /\ result = "true" /\ nInv >= 2 =>
        IdsAndTypes(componentList) = IdsAndTypes(regStart)

----------------------------------------------------------------------------
\* The registry positions of the last three entries.
LastThree == (Len(componentList) - 2)..Len(componentList)

\* C16: load() of a legacy project (a store without records) with a
\* functionPath ends with the registry extended by an IoTHub, an
\* IoTHubDevice and an AzureFunctions, in that order, the functions app
\* depending on the hub as Input; checkPrerequisites() has been called on
\* each of them, and load() has returned true whatever these checks
\* return (unless a call that load() waits for threw).
C16_LegacyLoad ==
    /\ Done("load") /\ result # "throw"
    /\ workspace \notin Incomplete
    /\ Records = <<>> /\ workspace.functionPath
    => /\ result = "true"
       /\ Len(componentList) >= 3
       /\ Types(SubSeq(componentList, Len(componentList) - 2,
                       Len(componentList)))
              = <<"IoTHub", "IoTHubDevice", "AzureFunctions">>
       /\ componentList[Len(componentList)].deps =
              <<[id |-> componentList[Len(componentList) - 2].id,
                 type |-> DependencyInput]>>
       /\ \A pos \in LastThree :
              \E k \in CallsOf("checkPrerequisites") :
                  /\ calls[k].pos = pos
                  /\ calls[k].id = componentList[pos].id

\* A legacy load() with a functionPath returned true and the check of the
\* functions app then returned false.
C16_Witness ==
    /\ Done("load") /\ result = "true"
    /\ Records = <<>> /\ workspace.functionPath
    /\ \E k \in CallsWith("checkPrerequisites", "false") :
           calls[k].pos = Len(componentList)
    /\ \E k \in CallsWith("checkPrerequisites", "true") :
           calls[k].pos = Len(componentList) - 2

----------------------------------------------------------------------------
\* The calls of the history that have not returned.
InProgress == {k \in 1..Len(calls) : calls[k].res = "pending"}

\* C18: within an invocation at most one operation is in progress at a
\* time, and none is in progress when the invocation has returned.
C18_AwaitsEveryOperation ==
    /\ Cardinality(InProgress) <= 1
    /\ pc \in {"idle", "done"} => InProgress = {}

----------------------------------------------------------------------------
\* C21: in every registry that load() or create() builds, a component that
\* has dependencies comes after the components it depends on: each of its
\* dependencies is the id of an entry at a smaller position.
C21_DependenciesBefore ==
    \A a \in 1..Len(componentList) :
        \A k \in 1..Len(componentList[a].deps) :
            \E b \in 1..(a - 1) :
                componentList[b].id = componentList[a].deps[k].id

\* load() returned true on two records, the second a CosmosDB that depends
\* on the first.
C21_Witness ==
    /\ Done("load") /\ result = "true"
    /\ Len(Records) = 2 /\ Records[2].type = "CosmosDB"
    /\ Len(Records[2].dependencies) = 1
    /\ componentList[Len(componentList)].deps = Records[2].dependencies

----------------------------------------------------------------------------
\* The registry positions up to pos whose component has the capability of
\* the phase.
EligibleUpTo(pos) ==
    {p \in 1..pos : <<componentList[p].id, CapabilityOf(phase)>> \in hasCap}

\* C22: in provision() and deploy(), each confirmation lists the eligible
\* components, and exactly one entry of the list carries the marker: the
\* one at the place of the component about to act among the eligible ones.
C22_OneMarker ==
    phase \in {"provision", "deploy"} =>
        \A k \in CallsOf("showQuickPick") :
            /\ Len(frame.itemList) =
                   Cardinality(EligibleUpTo(Len(componentList)))
            /\ calls[k].marks = {Cardinality(EligibleUpTo(calls[k].pos))}

----------------------------------------------------------------------------
\* C23 as stated: in compile, upload, provision and deploy, when the action
\* of a component returns false the driver throws, and no action is called
\* after it.
C23_FalseIsThrown ==
    phase \in {"compile", "upload", "provision", "deploy"} =>
        \A k \in CallsWith(phase, "false") :
            /\ pc = "done" /\ result = "throw"
            /\ \A j \in PhaseCalls : j <= k

\* C23, amended: in compile, upload and deploy, when the action of a
\* component returns false the driver throws; in provision it returns
\* false; in all four the sequence halts: no action and no confirmation is
\* called after the action that returned false.
C23_FalseHalts ==
    /\ phase \in {"compile", "upload", "deploy"} =>
           \A k \in CallsWith(phase, "false") :
               /\ pc = "done" /\ result = "throw"
               /\ \A j \in PhaseCalls \cup CallsOf("showQuickPick") : j <= k
    /\ phase = "provision" =>
           \A k \in CallsWith(phase, "false") :
               /\ pc = "done" /\ result = "false"
               /\ \A j \in PhaseCalls \cup CallsOf("showQuickPick") : j <= k

\* A deploy() threw on the false of the second component it acted on.
C23_Witness ==
    /\ Done("deploy") /\ result = "throw"
    /\ CallsWith("deploy", "true") # {}
    /\ CallsWith("deploy", "false") # {}

----------------------------------------------------------------------------
\* C24: in load(), a record of a type that the switch has no case for makes
\* load() throw when the loop reaches it: the loop does not go beyond the
\* record, no component of a later record is added to the registry, and
\* load() does not return true.
C24_UnsupportedTypeThrows ==
    phase = "load" =>
        \A i \in 1..Len(Records) :
            Records[i].type \notin KnownTypes =>
                /\ frame.i <= i
                /\ Len(OfRecords(Loaded)) < i
                /\ frame.i = i => pc = "done" /\ result = "throw"
                /\ pc = "done" => result # "true"

\* load() threw at the second record, of an unsupported type, after it had
\* loaded the hub of the first.
C24_Witness ==
    /\ Done("load") /\ result = "throw"
    /\ Len(Records) = 2 /\ Records[1].type = "IoTHub"
    /\ Records[2].type \notin KnownTypes
    /\ frame.i = 2
    /\ Len(OfRecords(Loaded)) = 1

----------------------------------------------------------------------------
\* C25: in a create() on a new project in which every create() of a
\* component returned true, create() was called once on each component of
\* the registry, in registry order.
C25_CreateOncePerComponent ==
    /\ Done("create") /\ regStart = <<>>
    /\ CallsOf("create") # {}
    /\ \A k \in CallsOf("create") : calls[k].res = "true"
    => /\ \A pos \in 1..Len(componentList) :
              Cardinality({k \in CallsOf("create") :
                              calls[k].id = componentList[pos].id}) = 1
       /\ \A j \in CallsOf("create"), k \in CallsOf("create") :
              j < k => calls[j].pos < calls[k].pos

\* C26: a load() that returned false or threw leaves the registry as it
\* was when load() was called.
C26_FailedLoadLeavesRegistry ==
    Done("load") /\ result # "true" => componentList = regStart

====
